---- MODULE Spec2Model ----
(***************************************************************************)
(* KickSight front end: the streaming chat hook (useChat), the transport   *)
(* that feeds it (ApiService.sendMessageStreamTrace) and the conversation  *)
(* list of KickSightApp that owns the hook.                                *)
(*                                                                         *)
(* A JavaScript string is a sequence of tokens: the line break "\n", the   *)
(* blank " " and words (a word stands for any run of other characters).    *)
(* An absent optional field of an event and the empty string are the same  *)
(* value <<>>: the code only ever tests them with `||` or `if (x)`.        *)
(*                                                                         *)
(* One step of the model is one task of the browser's event loop: a user   *)
(* handler, or the arrival of one server-sent event, or the end of a       *)
(* transport, each together with the React effects it triggers.            *)
(*                                                                         *)
(* The application is KickSightApp with mode 'Supervisor Agent' (every     *)
(* request is streamed).  A message carries its type, its content and the  *)
(* request that created it; a thread carries its id, its title, its        *)
(* session token and its messages.  Session tokens are numbered in the     *)
(* order generated.                                                        *)
(*                                                                         *)
(* The specifications share the state: Spec / SpecGuarded (requests,       *)
(* streams and the thread list), SpecStream and SpecReasoning (one request *)
(* with the events of its stream), SpecPanel and SpecValidate (the         *)
(* visualization panel and its iframe cache, with and without the thread   *)
(* list), SpecThreads (the thread list, its store and the page load),      *)
(* SpecTitles (the titles of threads over several requests),               *)
(* SpecRender (renderMessage with the type guards over every               *)
(* content of a bot message), SpecParse (parseJsonContent over texts       *)
(* and values), SpecProgress (one request and the progress events with and *)
(* without their optional fields), SpecGate (the input box and the gates   *)
(* of handleSendMessage), SpecIds (message ids as the clock advances),     *)
(* SpecTransport (the read loop of sendMessageStreamTrace over bodies cut  *)
(* into chunks) and SpecProcessing (requests whose transports all come to  *)
(* an end).  A message id is counted in half milliseconds.                 *)
(* An iframe element is its serial number for its url, its                 *)
(* style.display and the container it is a child of; the panel leaves the  *)
(* page in the step that clears showVisualization (the exit animation is   *)
(* not modelled).  A notice is its description and whether it is on        *)
(* screen; its title is not modelled.                                      *)
(***************************************************************************)
EXTENDS Integers, Sequences, FiniteSets, TLC

\* ------------------------------------------------------------------ bounds
MaxReq == 2
MaxEvents == 2
MaxThreads == 2
MaxSessions == 2
MaxStreamEvents == 6
MaxThreadEvents == 1
MaxProgressEvents == 3
MaxClock == 2
MaxLines == 2

Reqs == 1..MaxReq

\* --------------------------------------------------------------- strings
NL == "\n"
SP == " "

RECURSIVE split(_)
\* String.prototype.split('\n')
split(s) ==
    IF \A i \in 1..Len(s) : s[i] # NL
    THEN <<s>>
    ELSE LET k == CHOOSE i \in 1..Len(s) :
                      s[i] = NL /\ \A j \in 1..(i - 1) : s[j] # NL
         IN  <<SubSeq(s, 1, k - 1)>> \o split(SubSeq(s, k + 1, Len(s)))

\* s.trim() is non-empty
trimmed(s) == \E i \in 1..Len(s) : s[i] \notin {NL, SP}

RECURSIVE join(_)
\* Array.prototype.join('\n')
join(lines) ==
    IF Len(lines) = 0 THEN <<>>
    ELSE IF Len(lines) = 1 THEN lines[1]
    ELSE lines[1] \o <<NL>> \o join(Tail(lines))

\* Array.prototype.slice(-n)
sliceLast(a, n) == IF Len(a) <= n THEN a ELSE SubSeq(a, Len(a) - n + 1, Len(a))

\* a || b on strings
Or(a, b) == IF a # <<>> THEN a ELSE b

RecentSteps == 5

RECURSIVE trimStart(_)
trimStart(s) ==
    IF s # <<>> /\ Head(s) \in {NL, SP} THEN trimStart(Tail(s)) ELSE s

RECURSIVE trimEnd(_)
trimEnd(s) ==
    IF s # <<>> /\ s[Len(s)] \in {NL, SP} THEN trimEnd(SubSeq(s, 1, Len(s) - 1)) ELSE s

\* String.prototype.trim()
trim(s) == trimEnd(trimStart(s))

\* ---------------------------------------------------------------- values
\* A JavaScript value: undefined, null, a string (its text), or an object or
\* array (its own enumerable keys with their values).  The value of a scalar
\* field is a word ("" is the empty string); the value of `data` is a value.
Undefined == [kind |-> "undefined"]
Null == [kind |-> "null"]
Str(text) == [kind |-> "string", text |-> text]
Obj(f) == [kind |-> "object", fields |-> f]
Arr(f) == [kind |-> "array", fields |-> f]

\* typeof v === 'object'
typeofObject(v) == v.kind \in {"object", "array", "null"}

\* k in v, for a v that is not null
in(k, v) == k \in DOMAIN v.fields

\* Object.keys(v).length
keysLength(v) == Cardinality(DOMAIN v.fields)

\* v?.k
optionalField(v, k) ==
    IF v.kind \in {"object", "array"} /\ in(k, v) THEN v.fields[k] ELSE Undefined

\* a ?? b and a || b, on a value a
nullish(a) == a.kind \in {"undefined", "null"}
falsy(a) == nullish(a) \/ a = Str(<<>>)

\* ------------------------------------------------------- typeGuards.ts
QuickSightIFrame == "quicksight_iframe"

\* an isSupervisorAgentResponse that does not look at `type`
isSupervisorAgentResponseAnyType(response) ==
    /\ response # Null
    /\ typeofObject(response)
    /\ ~(in("message", response) /\ keysLength(response) = 1)
    /\ \/ in("query_id", response)
       \/ in("query", response)
       \/ in("chart_url", response)
       \/ in("explanation", response)
       \/ in("visualization_analysis_result", response)

isSupervisorAgentResponse(response) ==
    /\ response # Null
    /\ typeofObject(response)
    /\ ~in("type", response)
    /\ ~(in("message", response) /\ keysLength(response) = 1)
    /\ \/ in("query_id", response)
       \/ in("query", response)
       \/ in("chart_url", response)
       \/ in("explanation", response)
       \/ in("visualization_analysis_result", response)

isQuickSightIFrameResponse(response) ==
    /\ response # Null
    /\ typeofObject(response)
    /\ in("type", response)
    /\ response.fields["type"] = QuickSightIFrame
    /\ in("url", response)

isError(response) ==
    /\ response # Null
    /\ typeofObject(response)
    /\ in("message", response)
    /\ keysLength(response) = 1

\* typeGuards.isValidStreamEventType
isValidStreamEventType(type) ==
    type \in { "stream_start", "reasoning", "agent_start", "knowledge_base",
               "query_execution", "visualization_created", "error", "final_response" }

\* !!content.k, for a content that isSupervisorAgentResponse
truthy(content, k) == in(k, content) /\ content.fields[k] # ""

\* KickSightApp.renderSupervisorResponse: the blocks it renders
renderSupervisorResponse(content) ==
    LET hasDBResponse ==
            \/ truthy(content, "query_id") \/ truthy(content, "query")
            \/ truthy(content, "explanation") \/ truthy(content, "sample_analysis")
            \/ truthy(content, "csv_url")
        hasQuickSightResponse ==
            truthy(content, "chart_url") \/ truthy(content, "visualization_analysis_result")
    IN  IF ~hasDBResponse /\ ~hasQuickSightResponse
        THEN {"no response data"}
        ELSE (IF hasDBResponse THEN {"DB result"} ELSE {})
                 \cup (IF hasQuickSightResponse THEN {"QuickSight result"} ELSE {})

\* KickSightApp.renderMessage for a message of type 'bot': which of its
\* renderings the content gets
renderBotContent(content) ==
    IF typeofObject(content)
    THEN (IF isSupervisorAgentResponse(content) THEN {"supervisor"} ELSE {})
             \cup (IF isError(content) THEN {"error"} ELSE {})
    ELSE {"text"}

\* ------------------------------------------------------------ utils/json.ts
\* the result of a composite agent answer, and JSON texts of it: strict JSON,
\* JSON with a trailing comma, and JSON whose closing brace is missing
QueryResult == Obj([query_id |-> "Q1", explanation |-> "v"])
QueryJson == <<"{", "\"query_id\":\"Q1\",\"explanation\":\"v\"", "}">>
TrailingCommaJson == <<"{", "\"query_id\":\"Q1\",\"explanation\":\"v\",", "}">>
UnclosedJson == <<"{", "\"query_id\":\"Q1\",\"explanation\":\"v\"">>

\* an array and its JSON text, and a text that opens like an object and that
\* no parser and no repair makes sense of
ListResult == Arr([k \in {"0"} |-> "v"])
ListJson == <<"[", "\"v\"", "]">>
BrokenJson == <<"{", "]">>

\* what a parser that throws leaves behind
SyntaxError == [kind |-> "SyntaxError"]

\* JSON.parse, JSON5.parse and jsonrepair on the texts above
JSONparse(str) ==
    CASE str = QueryJson -> QueryResult
      [] str = ListJson -> ListResult
      [] OTHER -> SyntaxError
JSON5parse(str) ==
    CASE str \in {QueryJson, TrailingCommaJson} -> QueryResult
      [] str = ListJson -> ListResult
      [] OTHER -> SyntaxError
jsonrepair(str) ==
    CASE str \in {QueryJson, TrailingCommaJson, UnclosedJson} -> Str(QueryJson)
      [] str = ListJson -> Str(ListJson)
      [] OTHER -> SyntaxError

\* /^[{\[]/.test(str)
looksLikeJson(str) == str # <<>> /\ Head(str) \in {"{", "["}

\* the library calls parseJsonContent makes on raw, in order
parserCalls(raw) ==
    IF raw.kind # "string" THEN <<>>
    ELSE LET str == trim(raw.text)
         IN  IF ~looksLikeJson(str) THEN <<>>
             ELSE IF JSONparse(str) # SyntaxError THEN <<"JSON.parse">>
             ELSE IF JSON5parse(str) # SyntaxError THEN <<"JSON.parse", "JSON5.parse">>
             ELSE IF jsonrepair(str) = SyntaxError
                  THEN <<"JSON.parse", "JSON5.parse", "jsonrepair">>
             ELSE <<"JSON.parse", "JSON5.parse", "jsonrepair", "JSON.parse">>

\* no call of parseJsonContent has returned
NotParsed == [value |-> Undefined, calls |-> <<"<not called>">>]

\* a parseJsonContent that gives null when every parser has failed
parseJsonContentOrNull(raw) ==
    IF raw.kind # "string" THEN raw
    ELSE LET str == trim(raw.text)
         IN  IF ~looksLikeJson(str) THEN raw
             ELSE IF JSONparse(str) # SyntaxError THEN JSONparse(str)
             ELSE IF JSON5parse(str) # SyntaxError THEN JSON5parse(str)
             ELSE IF jsonrepair(str) # SyntaxError
                     /\ JSONparse(jsonrepair(str).text) # SyntaxError
                  THEN JSONparse(jsonrepair(str).text)
             ELSE Null

\* a parseJsonContent that gives back the trimmed text
parseJsonContentTrimmed(raw) ==
    IF raw.kind # "string" THEN raw
    ELSE LET str == trim(raw.text)
         IN  IF ~looksLikeJson(str) THEN Str(str)
             ELSE IF JSONparse(str) # SyntaxError THEN JSONparse(str)
             ELSE IF JSON5parse(str) # SyntaxError THEN JSON5parse(str)
             ELSE IF jsonrepair(str) # SyntaxError
                     /\ JSONparse(jsonrepair(str).text) # SyntaxError
                  THEN JSONparse(jsonrepair(str).text)
             ELSE Str(str)

parseJsonContent(raw) ==
    IF raw.kind # "string" THEN raw
    ELSE LET str == trim(raw.text)
         IN  IF str = <<>> \/ Head(str) \notin {"{", "["} THEN raw
             ELSE IF JSONparse(str) # SyntaxError THEN JSONparse(str)
             ELSE IF JSON5parse(str) # SyntaxError THEN JSON5parse(str)
             ELSE IF jsonrepair(str) # SyntaxError
                     /\ JSONparse(jsonrepair(str).text) # SyntaxError
                  THEN JSONparse(jsonrepair(str).text)
             ELSE raw

\* ---------------------------------------------------------------- events
\* api.ts StreamEvent; every optional string field defaults to the empty string
NoEvent ==
    [type |-> "", message |-> <<>>, content |-> <<>>, agent |-> <<>>,
     display_name |-> <<>>, references_count |-> 0, query_id |-> <<>>,
     chart_type |-> <<>>, success |-> FALSE, result |-> Undefined]

Ev(t) == [NoEvent EXCEPT !.type = t]
EvMsg(t, m) == [NoEvent EXCEPT !.type = t, !.message = m]

\* a text of three lines, such as a short stack trace carried by a diagnostic
ThreeLines == <<"l1", NL, "l2", NL, "l3">>

FinalOk == [Ev("final_response") EXCEPT !.success = TRUE, !.result = Str(<<"R">>)]
FinalFailed == Ev("final_response")

\* the events the server pushes on a stream of the application
AppEvents ==
    { Ev("stream_start"), EvMsg("error", ThreeLines), FinalOk, FinalFailed }

\* final_response events of one composite answer: the object, its JSON text,
\* and the object wrapped as the data of a typed result
FinalQuery == [FinalOk EXCEPT !.result = QueryResult]
FinalQueryText == [FinalOk EXCEPT !.result = Str(QueryJson)]
FinalWrapped == [FinalOk EXCEPT !.result = Obj([type |-> "table", data |-> QueryResult])]

\* the events of one stream, progress and final
StreamEvents ==
    { Ev("stream_start"),
      [EvMsg("agent_start", <<"querying">>) EXCEPT !.agent = <<"DB Agent">>],
      EvMsg("error", ThreeLines),
      FinalFailed, FinalQuery, FinalQueryText, FinalWrapped }

\* the texts a user may submit
Inputs == { <<"question">> }

\* new Error(message)
Error(message) == [name |-> "Error", message |-> message]

\* what a thrown transport carries, and what a failed final_response rejects with
HttpError == Error(<<"HTTP error! status: 500">>)
NetworkError == Error(<<"Failed to fetch">>)
AnalysisFailed == Error(<<"Analysis failed">>)

\* useChat.ts agentIcons
agentIcons(name) ==
    CASE name = <<"Refinement Agent">> -> "ICON_SEARCH"
      [] name = <<"DB Agent">> -> "ICON_DISK"
      [] name = <<"QuickSight Agent">> -> "ICON_CHART"
      [] name = <<"get_query_action_group">> -> "ICON_LENS"
      [] name = <<"Knowledge Base">> -> "ICON_BOOKS"
      [] OTHER -> "ICON_ROBOT"

\* stands for "setCurrentReasoningStep is not called"
Keep == <<"<unchanged>">>

\* a reading of the content that keeps every line
everyLine(s) == s

\* event.content.split('\n')[0]
firstLine(s) == split(s)[1]

\* the progress step an event hands to updateReasoningMessage; <<>> when it
\* hands none (every step the code builds starts with an icon or a label)
stepOf(ev) ==
    CASE ev.type = "stream_start" ->
            <<"ICON_ROCKET", SP>> \o Or(ev.message, <<"DEFAULT_START">>)
      [] ev.type = "reasoning" ->
            IF ev.content # <<>>
            THEN <<"ICON_THOUGHT", SP>> \o firstLine(ev.content)
            ELSE <<>>
      [] ev.type = "agent_start" ->
            LET agentName == Or(ev.display_name, Or(ev.agent, <<"AGENT">>))
            IN  <<agentIcons(agentName), SP>> \o agentName \o <<SP>>
                    \o Or(ev.message, <<"CALLING">>)
      [] ev.type = "knowledge_base" ->
            <<"ICON_BOOKS", SP>>
                \o Or(ev.message, <<"KB_FOUND", ToString(ev.references_count), "REFS">>)
      [] ev.type = "query_execution" ->
            IF ev.query_id # <<>>
            THEN <<"ICON_CYCLE", SP, "QUERY_RUNNING", SP, "(ID:", SP>> \o ev.query_id \o <<")">>
            ELSE <<>>
      [] ev.type = "visualization_created" ->
            IF ev.chart_type # <<>>
            THEN <<"ICON_GRAPH", SP>> \o ev.chart_type \o <<SP, "VIZ_CREATING">>
            ELSE <<>>
      [] ev.type = "error" ->
            <<"ICON_CROSS", SP, "ERROR:", SP>> \o Or(ev.message, <<"UNKNOWN_ERROR">>)
      [] ev.type = "final_response" -> <<>>
      [] OTHER ->
            IF ev.type # "" /\ ev.message # <<>>
            THEN <<"ICON_INFO", SP, ev.type, ":", SP>> \o ev.message
            ELSE <<>>

\* the argument of setCurrentReasoningStep in the event's case, Keep when the
\* case does not call it
reasoningStepOf(ev) ==
    CASE ev.type = "stream_start" -> Or(ev.message, <<"DEFAULT_START">>)
      [] ev.type = "reasoning" ->
            IF ev.content # <<>> THEN firstLine(ev.content) ELSE Keep
      [] ev.type \in {"agent_start", "knowledge_base", "error"} -> stepOf(ev)
      [] ev.type \in {"query_execution", "visualization_created"} ->
            IF stepOf(ev) # <<>> THEN stepOf(ev) ELSE Keep
      [] OTHER -> Keep

\* ------------------------------------------------------------- messages
\* types/index.ts Message; req is the request that made the message, content
\* is the value of the message's content
Msg(t, c, r, id) == [type |-> t, content |-> c, req |-> r, id |-> id]

\* a time in milliseconds as an id: ids are counted in halves of a
\* millisecond, so that Date.now() + 0.5 is a whole number
ms(t) == 2 * t

isReasoning(m) == m.type = "bot-reasoning"

\* prev.filter(msg => msg.type !== 'bot-reasoning')
RECURSIVE dropReasoning(_)
dropReasoning(prev) ==
    IF prev = <<>> THEN <<>>
    ELSE IF isReasoning(Head(prev)) THEN dropReasoning(Tail(prev))
    ELSE <<Head(prev)>> \o dropReasoning(Tail(prev))

\* steps.filter(s => s.trim())
RECURSIVE filterTrimmed(_)
filterTrimmed(lines) ==
    IF lines = <<>> THEN <<>>
    ELSE IF trimmed(Head(lines)) THEN <<Head(lines)>> \o filterTrimmed(Tail(lines))
    ELSE filterTrimmed(Tail(lines))

\* useChat.updateReasoningMessage, as the function it passes to setMessages
updateReasoningMessage(prev, newStep) ==
    IF \A i \in 1..Len(prev) : ~isReasoning(prev[i]) THEN prev
    ELSE LET reasoningMsgIndex ==
                 CHOOSE i \in 1..Len(prev) :
                     isReasoning(prev[i]) /\ \A j \in 1..(i - 1) : ~isReasoning(prev[j])
             existingContent == prev[reasoningMsgIndex].content.text
             steps == IF existingContent # <<>>
                      THEN filterTrimmed(split(existingContent))
                      ELSE <<>>
             recentSteps == sliceLast(Append(steps, newStep), RecentSteps)
         IN  [prev EXCEPT ![reasoningMsgIndex].content = Str(join(recentSteps))]


\* ------------------------------------------------- the visualization panel
\* chart urls a message may carry, and the address of the application itself
UrlA == "https://quicksight.example/embed/a"
UrlB == "https://quicksight.example/embed/b"
AppHref == "https://kicksight.example/"
FtpUrl == "ftp://files.example/chart"
RelativeUrl == "chart.html"
EmptyUrl == ""
ChartUrls == {UrlA, UrlB, AppHref, FtpUrl, RelativeUrl, EmptyUrl}

\* more texts a chart_url may be: a chart served over http, a page of the
\* application other than the one shown, the shown page with a query, and a
\* script url
UrlHttp == "http://charts.example/embed/c"
AppOtherPath == "https://kicksight.example/reports"
AppHrefQuery == "https://kicksight.example/?chart=1"
ScriptUrl == "javascript:alert(1)"
UrlTexts == ChartUrls \cup {UrlHttp, AppOtherPath, AppHrefQuery, ScriptUrl}

windowLocationHref == AppHref

\* currentVisualization is null / no timer is pending
NoUrl == "<null>"

\* what new URL(url) throws for a text that is no absolute url
TypeError == [name |-> "TypeError"]

\* new URL(url)
newURL(url) ==
    CASE url = UrlA -> [protocol |-> "https:", origin |-> "https://quicksight.example",
                        pathname |-> "/embed/a"]
      [] url = UrlB -> [protocol |-> "https:", origin |-> "https://quicksight.example",
                        pathname |-> "/embed/b"]
      [] url = AppHref -> [protocol |-> "https:", origin |-> "https://kicksight.example",
                           pathname |-> "/"]
      [] url = FtpUrl -> [protocol |-> "ftp:", origin |-> "null", pathname |-> "/chart"]
      [] url = UrlHttp -> [protocol |-> "http:", origin |-> "http://charts.example",
                           pathname |-> "/embed/c"]
      [] url = AppOtherPath -> [protocol |-> "https:", origin |-> "https://kicksight.example",
                                pathname |-> "/reports"]
      [] url = AppHrefQuery -> [protocol |-> "https:", origin |-> "https://kicksight.example",
                                pathname |-> "/"]
      [] url = ScriptUrl -> [protocol |-> "javascript:", origin |-> "null",
                             pathname |-> "alert(1)"]
      [] OTHER -> TypeError

\* an isValidUrl that does not compare the url with the address of the application
isValidUrlAnyHttp(url) ==
    LET urlObj == newURL(url)
    IN  IF urlObj = TypeError THEN FALSE
        ELSE urlObj.protocol \in {"http:", "https:"}

\* KickSightApp.isValidUrl
isValidUrl(url) ==
    LET urlObj == newURL(url)
        currentUrl == newURL(windowLocationHref)
    IN  IF urlObj = TypeError THEN FALSE
        ELSE IF urlObj.origin = currentUrl.origin /\ urlObj.pathname = currentUrl.pathname
        THEN FALSE
        ELSE urlObj.protocol \in {"http:", "https:"}

\* document.createElement('iframe') as getOrCreateIframe sets it up: the n-th
\* element made for its url, hidden, in no container
Iframe(n) == [serial |-> n, display |-> "none", parent |-> "none"]

\* quickSightIframeCache.set(url, iframe)
cacheSet(cache, url, iframe) ==
    [u \in DOMAIN cache \cup {url} |-> IF u = url THEN iframe ELSE cache[u]]

\* a getOrCreateIframe that does not look the url up
getOrCreateIframeNoLookup(cache, url, n) == cacheSet(cache, url, Iframe(n + 1))

\* useQuickSightIframeManager.getOrCreateIframe, as the cache it leaves; n is
\* the number of elements made for the url so far
getOrCreateIframe(cache, url, n) ==
    IF url \in DOMAIN cache THEN cache ELSE cacheSet(cache, url, Iframe(n + 1))

\* Array.from(containerRef.current.children).forEach(child => display = 'none'):
\* the children of the mounted panel's container
hideChildren(cache) ==
    [u \in DOMAIN cache |->
        IF cache[u].parent = "container" THEN [cache[u] EXCEPT !.display = "none"]
        ELSE cache[u]]

\* useQuickSightIframeManager.hideAllIframes, with the panel mounted
hideAllIframes(cache) == hideChildren(cache)

\* useQuickSightIframeManager.showIframe, with the panel mounted and a url
showIframe(cache, url, n) ==
    LET got == getOrCreateIframe(hideChildren(cache), url, n)
    IN  [got EXCEPT ![url].parent = "container", ![url].display = "block"]

\* the panel leaves the page: its container, with the iframes appended to it,
\* is no longer in the document
unmountPanel(cache) ==
    [u \in DOMAIN cache |->
        IF cache[u].parent = "container" THEN [cache[u] EXCEPT !.parent = "detached"]
        ELSE cache[u]]

\* ------------------------------------------------------------ rendering
NotRendered == [tags |-> {"<not rendered>"}, blocks |-> {}]

\* -------------------------------------------------------------- notices
\* the descriptions KickSightApp hands to setNotificationDescription
NoDescription == "<none>"
InvalidChartUrl == "the chart url is not valid"
AlreadyOpen == "the same chart is already open"
LastConversation == "create a new conversation before deleting"
SelectAgent == "select an agent before sending a message"
StartNewConversation == "start a new conversation"

\* a session token that is null, undefined or ''
NoSession == 0

\* ---------------------------------------------------------------- threads
\* the title of a thread that has not been named after a message
NewConversationTitle == <<"NEW_CONVERSATION">>

\* the length above which a title is cut
TitleLimit == 30

Ellipsis == <<".", ".", ".">>

\* title.startsWith(prefix)
startsWith(text, prefix) ==
    /\ Len(prefix) <= Len(text)
    /\ SubSeq(text, 1, Len(prefix)) = prefix

\* a title that follows the latest message of the user
titleOfLatest(title, msgs) ==
    LET users == {i \in 1..Len(msgs) : msgs[i].type = "user"}
    IN  IF users # {}
        THEN LET latestUserMessage == msgs[CHOOSE i \in users : \A j \in users : i >= j]
                 messageContent == latestUserMessage.content.text
             IN  IF Len(messageContent) > TitleLimit
                 THEN SubSeq(messageContent, 1, TitleLimit) \o Ellipsis
                 ELSE messageContent
        ELSE title

\* the title the effect on [messages, activeConversation] gives the active
\* thread: a character of a text is one element of the sequence
titleOf(title, msgs) ==
    LET users == {i \in 1..Len(msgs) : msgs[i].type = "user"}
    IN  IF users # {} /\ startsWith(title, NewConversationTitle)
        THEN LET firstUserMessage == msgs[CHOOSE i \in users : \A j \in users : i <= j]
                 messageContent == firstUserMessage.content.text
             IN  IF Len(messageContent) > TitleLimit
                 THEN SubSeq(messageContent, 1, TitleLimit) \o Ellipsis
                 ELSE messageContent
        ELSE title

\* JSON.stringify(conversations) as it is stored: ids, titles, session tokens
\* and message contents are JSON values and are read back as they were written
stringify(convs) == [item |-> convs]

\* ---------------------------------------------------------------- state
VARIABLES
    conversations,        \* KickSightApp: the thread list, in display order
    activeConversation,   \* KickSightApp: id of the active thread
    selectedAgent,        \* KickSightApp: an agent is selected (TRUE) or '' (FALSE)
    messages,             \* useChat: the message list of the hook
    sessionId,            \* useChat: the session token of the hook
    isProcessing,         \* useChat
    currentReasoningStep, \* useChat
    hookRev,              \* which revision of hooks/useChat.ts is built
    transport,            \* per request: the state of sendMessageStreamTrace
    promise,              \* per request: the promise sendMessage returned
    delivered,            \* per request: the kinds of the events handed to onEvent
    submittedAt,          \* per request: sessionSeq when it was submitted
    sessionSeq,           \* how many session tokens generateSessionId has made
    generated,            \* per request: the steps handed to updateReasoningMessage
    showVisualization,    \* KickSightApp: the visualization panel is rendered
    currentVisualization, \* KickSightApp: the url of the visualization, or NoUrl
    quickSightIframeCache,\* the module-level Map: url -> iframe element
    created,              \* per url: how many iframe elements createElement made
    timer,                \* the url of the panel's pending setTimeout, or NoUrl
    requested,            \* the last two valid urls handed to handleOpenChart
    payload,              \* the content of the bot message being rendered
    rendering,            \* what renderMessage made of it
    showNotification,     \* KickSightApp: a notice is on screen
    notificationDescription, \* KickSightApp: the description of the last notice
    localStorage,         \* the item 'kicksight_conversations'
    raw,                  \* the argument of a call of parseJsonContent
    parsed,               \* what the call returned, and the parsers it called
    inputMessage,         \* KickSightApp: the text in the input box
    now,                  \* Date.now(), in milliseconds since the page was opened
    wire,                 \* a response body: its bytes and how many were read
    buffer,               \* sendMessageStreamTrace: the text not yet split
    handed                \* the events sendMessageStreamTrace handed to onEvent

vars == <<conversations, activeConversation, selectedAgent, messages, sessionId,
          isProcessing, currentReasoningStep, hookRev, transport, promise,
          delivered, submittedAt, sessionSeq, generated, showVisualization,
          currentVisualization, quickSightIframeCache, created, timer, requested,
          payload, rendering, showNotification, notificationDescription,
          localStorage, raw, parsed, inputMessage, now, wire, buffer, handed>>

streamVars == <<transport, promise, delivered, submittedAt>>

\* the panel and its embed cache
panelVars == <<showVisualization, currentVisualization, quickSightIframeCache,
               created, timer, requested>>

\* the message content handed to renderMessage
renderVars == <<payload, rendering>>

\* the notice of KickSightApp
noticeVars == <<showNotification, notificationDescription>>

\* a call of parseJsonContent
parseVars == <<raw, parsed>>

\* the input box
inputVars == <<inputMessage>>

\* the clock
clockVars == <<now>>

\* a response body and the loop that reads it
bodyVars == <<wire, buffer, handed>>

chatVars == <<conversations, activeConversation, selectedAgent, messages, sessionId,
              isProcessing, currentReasoningStep, hookRev, sessionSeq>>

\* the two revisions of the hook in the repository
Guarded == "mode-guarded finally"
Unguarded == "unconditional finally"

\* sendMessage's outer `finally` runs as soon as the streaming promise has been
\* returned (it is returned, not awaited); this revision resets the flags there
outerFinallyResets == hookRev = Unguarded

\* final_response, success: parseJsonContent(event.result?.data ?? event.result)
\* in the revision with the mode-guarded finally, event.result?.data ||
\* event.result in the other
displayContent(ev) ==
    LET data == optionalField(ev.result, "data")
    IN  IF hookRev = Guarded
        THEN parseJsonContent(IF nullish(data) THEN ev.result ELSE data)
        ELSE (IF falsy(data) THEN ev.result ELSE data)

\* the user message and the placeholder appended by sendMessage, with the ids
\* Date.now() and Date.now() + 0.5
userMessage(text, r) == Msg("user", Str(text), r, ms(now))
reasoningMessage(r) == Msg("bot-reasoning", Str(<<>>), r, ms(now) + 1)

\* the error message sendMessage's outer catch puts in place of the placeholder;
\* with the streaming promise returned and not awaited, no rejection reaches it
errorMessage(r) == Msg("bot", Str(<<"SERVER_ERROR_TEXT">>), r, ms(now + 1))

\* the final message of a request, with the id Date.now() + 1
botMessage(ev, r) == Msg("bot", displayContent(ev), r, ms(now + 1))

\* event.result?.type || 'text'
responseTypeOf(ev) ==
    IF ev.result.kind \in {"object", "array"} /\ truthy(ev.result, "type")
    THEN ev.result.fields["type"]
    ELSE "text"

\* the value sendMessage's promise resolves with
Resolution(ev) == [response |-> displayContent(ev), responseType |-> responseTypeOf(ev)]

Pending == [state |-> "pending", value |-> Undefined]

\* resolve(v) / reject(e): a promise settles once, later calls are ignored
settle(p, st, v) == IF p.state = "pending" THEN [state |-> st, value |-> v] ELSE p

Conversation(id, title, sid) ==
    [id |-> id, title |-> title, sessionId |-> sid, messages |-> <<>>]

\* KickSightApp.loadConversations; sid is the token generateSessionId makes when
\* nothing is stored
loadConversations(saved, sid) ==
    IF saved = Null THEN <<Conversation(1, NewConversationTitle, sid)>>
    ELSE saved.item

\* KickSightApp with nothing persisted, the hook's useState, and the effect on
\* [conversations] that stores the list
InitChat ==
    /\ conversations = loadConversations(Null, 1)
    /\ localStorage = stringify(conversations)
    /\ activeConversation = 1
    /\ inputMessage = <<>>
    /\ now = 0
    /\ selectedAgent = FALSE
    /\ messages = <<>>
    /\ sessionId = 1
    /\ isProcessing = FALSE
    /\ currentReasoningStep = <<>>
    /\ hookRev \in {Guarded, Unguarded}
    /\ transport = [r \in Reqs |-> "idle"]
    /\ promise = [r \in Reqs |-> Pending]
    /\ delivered = [r \in Reqs |-> <<>>]
    /\ submittedAt = [r \in Reqs |-> 0]
    /\ sessionSeq = 1
    /\ generated = [r \in Reqs |-> <<>>]

\* KickSightApp's useState for the panel, and the empty module-level Map
InitPanel ==
    /\ showVisualization = FALSE
    /\ currentVisualization = NoUrl
    /\ quickSightIframeCache = <<>>
    /\ created = [u \in UrlTexts |-> 0]
    /\ timer = NoUrl
    /\ requested = <<>>

\* no bot message is on screen
InitNothingRendered ==
    /\ payload = Undefined
    /\ rendering = NotRendered

\* KickSightApp's useState for the notice
InitNotice ==
    /\ showNotification = FALSE
    /\ notificationDescription = NoDescription

\* parseJsonContent has not been called
InitNothingParsed ==
    /\ raw = Undefined
    /\ parsed = NotParsed

\* no response body is being read
InitNoBody ==
    /\ wire = [bytes |-> <<>>, read |-> 0, done |-> FALSE]
    /\ buffer = <<>>
    /\ handed = <<>>

Init ==
    /\ InitChat /\ InitPanel /\ InitNothingRendered /\ InitNotice /\ InitNothingParsed
    /\ InitNoBody

\* the effect on [messages, activeConversation]: the active thread takes the
\* hook's message list and session token
syncConversations(convs, active, msgs, sid) ==
    [i \in 1..Len(convs) |->
        IF convs[i].id = active
        THEN [convs[i] EXCEPT !.messages = msgs,
                              !.sessionId = IF sid # NoSession THEN sid ELSE @,
                              !.title = titleOf(convs[i].title, msgs)]
        ELSE convs[i]]

\* the effect on [conversations]: localStorage.setItem
persist == localStorage' = stringify(conversations')

\* setNotification...(description); setShowNotification(true)
notify(description) ==
    /\ showNotification' = TRUE
    /\ notificationDescription' = description

conversationById(convs, id) ==
    convs[CHOOSE i \in 1..Len(convs) : convs[i].id = id]

hasConversation(convs, id) == \E i \in 1..Len(convs) : convs[i].id = id

\* an id for a new thread that does not look at the ids in use
maxIdOfNone(convs) == 0

RECURSIVE maxId(_)
\* Math.max(...conversations.map(c => c.id), 0)
maxId(convs) ==
    IF convs = <<>> THEN 0
    ELSE LET m == maxId(Tail(convs))
         IN  IF Head(convs).id > m THEN Head(convs).id ELSE m

RECURSIVE removeConversation(_, _)
\* conversations.filter(c => c.id !== convId)
removeConversation(convs, convId) ==
    IF convs = <<>> THEN <<>>
    ELSE IF Head(convs).id = convId THEN removeConversation(Tail(convs), convId)
    ELSE <<Head(convs)>> \o removeConversation(Tail(convs), convId)

\* ---------------------------------------------------------- user actions
\* getAgentsConfig resolves and the effect selects the first agent
AgentsConfigLoaded ==
    /\ ~selectedAgent
    /\ selectedAgent' = TRUE
    /\ UNCHANGED <<conversations, activeConversation, messages, sessionId,
                   isProcessing, currentReasoningStep, hookRev, sessionSeq,
                   localStorage>>
    /\ UNCHANGED streamVars
    /\ UNCHANGED <<generated, panelVars, renderVars, clockVars, bodyVars, parseVars, inputVars,
                   noticeVars>>

nextRequest == Cardinality({r \in Reqs : transport[r] # "idle"}) + 1

\* a handleSendMessage that hands the text to the hook whatever is selected
HandleSendMessageUngated(text) ==
    /\ nextRequest \in Reqs
    /\ IF isProcessing
       THEN UNCHANGED vars
       ELSE LET r == nextRequest
                msgs == messages \o <<userMessage(text, r), reasoningMessage(r)>>
            IN  /\ inputMessage' = text
                /\ messages' = msgs
                /\ isProcessing' = ~outerFinallyResets
                /\ currentReasoningStep' =
                       IF outerFinallyResets THEN <<>> ELSE currentReasoningStep
                /\ transport' = [transport EXCEPT ![r] = "open"]
                /\ submittedAt' = [submittedAt EXCEPT ![r] = sessionSeq]
                /\ conversations' =
                       syncConversations(conversations, activeConversation, msgs, sessionId)
                /\ persist
                /\ UNCHANGED <<activeConversation, selectedAgent, sessionId, hookRev,
                               promise, delivered, sessionSeq>>
                /\ UNCHANGED <<generated, panelVars, renderVars, clockVars, bodyVars,
                               parseVars, noticeVars>>

\* KickSightApp.handleSendMessage and useChat.sendMessage, up to the return of
\* the streaming promise and sendMessage's outer finally.  The input box holds
\* text, which is not blank, when the handler runs; while a request is
\* processing the box is disabled and the handler returns at once.  The text
\* stays in the box until the promise of the request resolves (OnEvent).
HandleSendMessage(text) ==
    /\ nextRequest \in Reqs
    /\ IF isProcessing
       THEN UNCHANGED vars
       ELSE IF ~selectedAgent
       THEN /\ inputMessage' = text
            /\ notify(SelectAgent)
            /\ UNCHANGED <<chatVars, streamVars, panelVars, renderVars, clockVars, bodyVars,
                           parseVars,
                           generated, localStorage>>
       ELSE IF sessionId = NoSession
       THEN /\ inputMessage' = text
            /\ notify(StartNewConversation)
            /\ UNCHANGED <<chatVars, streamVars, panelVars, renderVars, clockVars, bodyVars,
                           parseVars,
                           generated, localStorage>>
       ELSE LET r == nextRequest
                msgs == messages \o <<userMessage(text, r), reasoningMessage(r)>>
            IN  /\ inputMessage' = text
                /\ messages' = msgs
                /\ isProcessing' = ~outerFinallyResets
                /\ currentReasoningStep' =
                       IF outerFinallyResets THEN <<>> ELSE currentReasoningStep
                /\ transport' = [transport EXCEPT ![r] = "open"]
                /\ submittedAt' = [submittedAt EXCEPT ![r] = sessionSeq]
                /\ conversations' =
                       syncConversations(conversations, activeConversation, msgs, sessionId)
                /\ persist
                /\ UNCHANGED <<activeConversation, selectedAgent, sessionId, hookRev,
                               promise, delivered, sessionSeq>>
                /\ UNCHANGED <<generated, panelVars, renderVars, clockVars, bodyVars,
                               parseVars, noticeVars>>

\* KickSightApp.handleNewConversation with useChat.newSession
HandleNewConversation ==
    /\ Len(conversations) < MaxThreads
    /\ sessionSeq < MaxSessions
    /\ LET newSessionId == sessionSeq + 1
           newId == maxId(conversations) + 1
       IN  /\ sessionSeq' = newSessionId
           /\ conversations' =
                  Append(conversations,
                         Conversation(newId,
                                      NewConversationTitle \o <<SP, ToString(newId)>>,
                                      newSessionId))
           /\ persist
           /\ activeConversation' = newId
           /\ sessionId' = newSessionId
           /\ messages' = <<>>
    /\ UNCHANGED <<selectedAgent, isProcessing, currentReasoningStep, hookRev>>
    /\ UNCHANGED streamVars
    /\ showVisualization' = FALSE
    /\ quickSightIframeCache' = unmountPanel(quickSightIframeCache)
    /\ timer' = NoUrl
    /\ UNCHANGED <<currentVisualization, created, requested, generated, renderVars, clockVars,
                   bodyVars,
                   parseVars,
                   inputVars,
                   noticeVars>>

\* KickSightApp.handleConversationSwitch
HandleConversationSwitch(convId) ==
    /\ hasConversation(conversations, convId)
    /\ convId # activeConversation
    /\ LET conv == conversationById(conversations, convId)
       IN  /\ activeConversation' = convId
           /\ sessionId' = conv.sessionId
           /\ messages' = conv.messages
    /\ UNCHANGED <<conversations, selectedAgent, isProcessing, currentReasoningStep,
                   hookRev, sessionSeq, localStorage>>
    /\ UNCHANGED streamVars
    /\ showVisualization' = FALSE
    /\ quickSightIframeCache' = unmountPanel(quickSightIframeCache)
    /\ timer' = NoUrl
    /\ UNCHANGED <<currentVisualization, created, requested, generated, renderVars, clockVars,
                   bodyVars,
                   parseVars,
                   inputVars,
                   noticeVars>>

\* a handleDeleteConversation that does not look whether the thread is the last
HandleDeleteConversationUnguarded(convId) ==
    /\ hasConversation(conversations, convId)
    /\ LET updatedConversations == removeConversation(conversations, convId)
       IN  /\ conversations' = updatedConversations
           /\ persist
           /\ IF activeConversation = convId /\ updatedConversations # <<>>
              THEN /\ activeConversation' = updatedConversations[1].id
                   /\ sessionId' = updatedConversations[1].sessionId
                   /\ messages' = updatedConversations[1].messages
              ELSE UNCHANGED <<activeConversation, sessionId, messages>>
           /\ UNCHANGED <<selectedAgent, isProcessing, currentReasoningStep,
                          hookRev, sessionSeq>>
           /\ UNCHANGED streamVars
           /\ UNCHANGED <<generated, panelVars, renderVars, clockVars, bodyVars, parseVars,
                          inputVars,
                          noticeVars>>

\* KickSightApp.handleDeleteConversation
HandleDeleteConversation(convId) ==
    /\ hasConversation(conversations, convId)
    /\ IF Len(conversations) <= 1
       THEN /\ notify(LastConversation)
            /\ UNCHANGED <<chatVars, streamVars, panelVars, renderVars, clockVars, bodyVars,
                           parseVars,
                           inputVars,
                           generated,
                           localStorage>>
       ELSE LET updatedConversations == removeConversation(conversations, convId)
                firstConv == updatedConversations[1]
            IN  /\ conversations' = updatedConversations
                /\ persist
                /\ IF activeConversation = convId
                   THEN /\ activeConversation' = firstConv.id
                        /\ sessionId' = firstConv.sessionId
                        /\ messages' = firstConv.messages
                   ELSE UNCHANGED <<activeConversation, sessionId, messages>>
                /\ UNCHANGED <<selectedAgent, isProcessing, currentReasoningStep,
                               hookRev, sessionSeq>>
                /\ UNCHANGED streamVars
                /\ UNCHANGED <<generated, panelVars, renderVars, clockVars, bodyVars, parseVars,
                               inputVars, noticeVars>>

\* the sidebar's delete-all button, confirmed
HandleDeleteAll ==
    /\ sessionSeq < MaxSessions
    /\ sessionSeq' = sessionSeq + 1
    /\ conversations' = <<Conversation(1, NewConversationTitle, sessionSeq + 1)>>
    /\ persist
    /\ activeConversation' = 1
    /\ sessionId' = sessionSeq + 1
    /\ messages' = <<>>
    /\ UNCHANGED <<selectedAgent, isProcessing, currentReasoningStep, hookRev>>
    /\ UNCHANGED streamVars
    /\ UNCHANGED <<generated, panelVars, renderVars, clockVars, bodyVars, parseVars, inputVars,
                   noticeVars>>

\* ------------------------------------------------------------ the stream
kindOf(ev) ==
    IF ev.type = "final_response"
    THEN (IF ev.success THEN "final_response:true" ELSE "final_response:false")
    ELSE ev.type

isFinal(k) == k \in {"final_response:true", "final_response:false"}

\* an onEvent whose default case takes the placeholder away
onEventMessagesDefaultEnds(prev, ev, r) ==
    IF ev.type = "final_response"
    THEN (IF ev.success THEN dropReasoning(prev) \o <<botMessage(ev, r)>> ELSE prev)
    ELSE IF ~isValidStreamEventType(ev.type) THEN dropReasoning(prev)
    ELSE IF stepOf(ev) # <<>> THEN updateReasoningMessage(prev, stepOf(ev))
    ELSE prev

\* the onEvent callback of sendMessage, as the function it passes to setMessages
onEventMessages(prev, ev, r) ==
    IF ev.type = "final_response"
    THEN (IF ev.success THEN dropReasoning(prev) \o <<botMessage(ev, r)>> ELSE prev)
    ELSE IF stepOf(ev) # <<>> THEN updateReasoningMessage(prev, stepOf(ev))
    ELSE prev

\* an onEvent whose case 'error' rejects the request
onEventPromiseErrorRejects(p, ev) ==
    IF ev.type = "final_response"
    THEN (IF ev.success
          THEN settle(p, "resolved", Resolution(ev))
          ELSE settle(p, "rejected", AnalysisFailed))
    ELSE IF ev.type = "error" THEN settle(p, "rejected", Error(ev.message))
    ELSE p

\* a final_response handler whose failure branch forgets to reject
onEventPromiseNoReject(p, ev) ==
    IF ev.type = "final_response" /\ ev.success
    THEN settle(p, "resolved", Resolution(ev))
    ELSE p

\* the onEvent callback of sendMessage: what it does to the request's promise
onEventPromise(p, ev) ==
    IF ev.type = "final_response"
    THEN (IF ev.success
          THEN settle(p, "resolved", Resolution(ev))
          ELSE settle(p, "rejected", AnalysisFailed))
    ELSE p

\* sendMessageStreamTrace hands one parsed event to the callback; when the
\* promise resolves, handleSendMessage goes on after its await and empties the
\* input box
OnEvent(r, ev) ==
    /\ transport[r] = "open"
    /\ LET msgs == onEventMessages(messages, ev, r)
       IN  /\ messages' = msgs
           /\ conversations' =
                  syncConversations(conversations, activeConversation, msgs, sessionId)
    /\ currentReasoningStep' =
           IF reasoningStepOf(ev) = Keep THEN currentReasoningStep ELSE reasoningStepOf(ev)
    /\ promise' = [promise EXCEPT ![r] = onEventPromise(promise[r], ev)]
    /\ delivered' = [delivered EXCEPT ![r] = Append(delivered[r], kindOf(ev))]
    /\ generated' = [generated EXCEPT ![r] =
                         IF stepOf(ev) # <<>> THEN Append(@, stepOf(ev)) ELSE @]
    /\ UNCHANGED <<activeConversation, selectedAgent, sessionId, isProcessing, hookRev,
                   transport, submittedAt, sessionSeq>>
    /\ persist
    /\ inputMessage' =
           IF promise[r] = Pending /\ promise'[r].state = "resolved" THEN <<>>
           ELSE inputMessage
    /\ UNCHANGED <<panelVars, renderVars, clockVars, bodyVars, parseVars, noticeVars>>

\* reader.read() reports done (or there is no body): sendMessageStreamTrace
\* returns, .catch is skipped, .finally runs
StreamClose(r) ==
    /\ transport[r] = "open"
    /\ transport' = [transport EXCEPT ![r] = "closed"]
    /\ isProcessing' = FALSE
    /\ currentReasoningStep' = <<>>
    /\ UNCHANGED <<conversations, activeConversation, selectedAgent, messages, sessionId,
                   hookRev, promise, delivered, submittedAt, sessionSeq, localStorage>>
    /\ UNCHANGED <<generated, panelVars, renderVars, clockVars, bodyVars, parseVars, inputVars,
                   noticeVars>>

\* the step .catch hands to updateReasoningMessage
streamErrorStep(reason) == <<"ICON_CROSS", SP, "STREAM_ERROR:", SP>> \o reason.message

\* fetch fails, the status is not OK, or reader.read() throws:
\* sendMessageStreamTrace rethrows, .catch and .finally run
StreamThrow(r, reason) ==
    /\ transport[r] = "open"
    /\ reason = HttpError => delivered[r] = <<>>
    /\ transport' = [transport EXCEPT ![r] = "thrown"]
    /\ LET msgs == updateReasoningMessage(messages, streamErrorStep(reason))
       IN  /\ messages' = msgs
           /\ conversations' =
                  syncConversations(conversations, activeConversation, msgs, sessionId)
    /\ promise' = [promise EXCEPT ![r] = settle(promise[r], "rejected", reason)]
    /\ isProcessing' = FALSE
    /\ currentReasoningStep' = <<>>
    /\ generated' = [generated EXCEPT ![r] = Append(@, streamErrorStep(reason))]
    /\ UNCHANGED <<activeConversation, selectedAgent, sessionId, hookRev, delivered,
                   submittedAt, sessionSeq>>
    /\ persist
    /\ UNCHANGED <<panelVars, renderVars, clockVars, bodyVars, parseVars, inputVars, noticeVars>>

ConvIds == 1..(MaxThreads + 1)

\* requests and their streams across the threads. Of the user's actions it
\* follows those a handler accepts; the ones a handler turns away with a notice
\* (a message with no agent selected, the deletion of the only thread) are
\* followed in SpecThreads and SpecPanel.
Next ==
    \/ AgentsConfigLoaded
    \/ \E text \in Inputs : selectedAgent /\ HandleSendMessage(text)
    \/ HandleNewConversation
    \/ \E c \in ConvIds : HandleConversationSwitch(c)
    \/ \E c \in ConvIds : Len(conversations) > 1 /\ HandleDeleteConversation(c)
    \/ HandleDeleteAll
    \/ \E r \in Reqs, ev \in AppEvents :
          Len(delivered[r]) < MaxEvents /\ OnEvent(r, ev)
    \/ \E r \in Reqs : StreamClose(r)
    \/ \E r \in Reqs, reason \in {HttpError, NetworkError} : StreamThrow(r, reason)

\* both revisions of the hook
Spec == Init /\ [][Next]_vars

\* the revision with the mode-guarded finally alone
InitGuarded == Init /\ hookRev = Guarded
SpecGuarded == InitGuarded /\ [][Next]_vars

\* ------------------------------------------------------- a single stream
NextStream ==
    \/ AgentsConfigLoaded
    \/ \E text \in Inputs : selectedAgent /\ nextRequest = 1 /\ HandleSendMessage(text)
    \/ \E ev \in StreamEvents :
          Len(delivered[1]) < MaxStreamEvents /\ OnEvent(1, ev)
    \/ StreamClose(1)
    \/ \E reason \in {HttpError, NetworkError} : StreamThrow(1, reason)

\* one request and the events of its stream, in both revisions of the hook
SpecStream == Init /\ [][NextStream]_vars

\* ------------------------------------------------- reasoning events
EvContent(c) == [Ev("reasoning") EXCEPT !.content = c]

\* 'reasoning' events: a thought of one line, one of three lines, one whose
\* first line is empty, one with no content; with a diagnostic of three lines
\* and an answer
ReasoningEvents ==
    { EvContent(<<"thinking">>), EvContent(ThreeLines), EvContent(<<NL, "l2">>),
      Ev("reasoning"), EvMsg("error", ThreeLines), FinalOk }

NextReasoning ==
    \/ AgentsConfigLoaded
    \/ \E text \in Inputs : selectedAgent /\ nextRequest = 1 /\ HandleSendMessage(text)
    \/ \E ev \in ReasoningEvents :
          Len(delivered[1]) < MaxStreamEvents /\ OnEvent(1, ev)
    \/ StreamClose(1)

\* one request whose stream carries the thoughts of the agent
SpecReasoning == Init /\ [][NextReasoning]_vars

\* -------------------------------------------------- progress events
EvCount(n, m) == [EvMsg("knowledge_base", m) EXCEPT !.references_count = n]
EvQuery(q) == [Ev("query_execution") EXCEPT !.query_id = q]
EvChart(c) == [Ev("visualization_created") EXCEPT !.chart_type = c]

\* progress events of the knowledge base, of a query and of a chart, with
\* and without their optional fields; events of a kind the hook does not
\* know, with and without a message; an event with a message and no type;
\* and an answer
ProgressEvents ==
    { EvCount(3, <<>>), Ev("knowledge_base"), EvCount(3, <<"searching">>),
      EvQuery(<<"Q1">>), Ev("query_execution"),
      EvChart(<<"bar">>), Ev("visualization_created"),
      EvMsg("heartbeat", <<"alive">>), Ev("heartbeat"), EvMsg("", <<"alive">>),
      FinalOk }

NextProgress ==
    \/ AgentsConfigLoaded
    \/ \E text \in Inputs : selectedAgent /\ nextRequest = 1 /\ HandleSendMessage(text)
    \/ \E ev \in ProgressEvents :
          Len(delivered[1]) < MaxProgressEvents /\ OnEvent(1, ev)
    \/ StreamClose(1)

\* one request whose stream carries progress events of every kind
SpecProgress == Init /\ [][NextProgress]_vars

\* ------------------------------------------------------------ the panel
\* a handleOpenChart that does not validate the url
HandleOpenChartUnvalidated(chartUrl) ==
    IF chartUrl = EmptyUrl
    THEN UNCHANGED vars
    ELSE /\ requested' = sliceLast(Append(requested, chartUrl), 2)
         /\ IF currentVisualization = chartUrl /\ showVisualization
            THEN /\ notify(AlreadyOpen)
                 /\ UNCHANGED <<currentVisualization, showVisualization, timer>>
            ELSE /\ currentVisualization' = chartUrl
                 /\ showVisualization' = TRUE
                 /\ timer' = chartUrl
                 /\ UNCHANGED noticeVars
         /\ UNCHANGED <<quickSightIframeCache, created, generated>>
         /\ UNCHANGED <<chatVars, streamVars, renderVars, clockVars, bodyVars, parseVars, inputVars,
                        localStorage>>

\* a handleOpenChart that does not look whether the url is the one on show:
\* it sets a new visualization object, and the panel's effect runs again
HandleOpenChartReopens(chartUrl) ==
    IF chartUrl = EmptyUrl
    THEN UNCHANGED vars
    ELSE IF ~isValidUrl(chartUrl)
    THEN /\ notify(InvalidChartUrl)
         /\ UNCHANGED <<chatVars, streamVars, panelVars, renderVars, clockVars, bodyVars, parseVars,
                        inputVars,
                        generated,
                        localStorage>>
    ELSE /\ requested' = sliceLast(Append(requested, chartUrl), 2)
         /\ currentVisualization' = chartUrl
         /\ showVisualization' = TRUE
         /\ timer' = chartUrl
         /\ UNCHANGED noticeVars
         /\ UNCHANGED <<quickSightIframeCache, created, generated>>
         /\ UNCHANGED <<chatVars, streamVars, renderVars, clockVars, bodyVars, parseVars, inputVars,
                        localStorage>>

\* KickSightApp.handleOpenChart; a panel that appears is mounted with an empty
\* container, and its effect on [visualization] arms the 100 ms timer
HandleOpenChart(chartUrl) ==
    IF chartUrl = EmptyUrl
    THEN UNCHANGED vars
    ELSE IF ~isValidUrl(chartUrl)
    THEN /\ notify(InvalidChartUrl)
         /\ UNCHANGED <<chatVars, streamVars, panelVars, renderVars, clockVars, bodyVars, parseVars,
                        inputVars,
                        generated,
                        localStorage>>
    ELSE /\ requested' = sliceLast(Append(requested, chartUrl), 2)
         /\ IF currentVisualization = chartUrl /\ showVisualization
            THEN /\ notify(AlreadyOpen)
                 /\ UNCHANGED <<currentVisualization, showVisualization, timer>>
            ELSE /\ currentVisualization' = chartUrl
                 /\ showVisualization' = TRUE
                 /\ timer' = chartUrl
                 /\ UNCHANGED noticeVars
         /\ UNCHANGED <<quickSightIframeCache, created, generated>>
         /\ UNCHANGED <<chatVars, streamVars, renderVars, clockVars, bodyVars, parseVars, inputVars,
                        localStorage>>

\* the timer of QuickSightVisualization's effect fires: showIframe(url, title)
PanelTimer ==
    /\ timer # NoUrl
    /\ LET cache == showIframe(quickSightIframeCache, timer, created[timer])
       IN  /\ quickSightIframeCache' = cache
           /\ created' = [created EXCEPT ![timer] = cache[timer].serial]
    /\ timer' = NoUrl
    /\ UNCHANGED <<showVisualization, currentVisualization, requested, generated>>
    /\ UNCHANGED <<chatVars, streamVars, renderVars, clockVars, bodyVars, parseVars, inputVars,
                   noticeVars,
                   localStorage>>

\* QuickSightVisualization.handleClose: hideAllIframes, then onClose takes the
\* panel off the page (the effect's cleanup clears the timer)
HandleClose ==
    /\ showVisualization
    /\ quickSightIframeCache' = unmountPanel(hideAllIframes(quickSightIframeCache))
    /\ showVisualization' = FALSE
    /\ timer' = NoUrl
    /\ UNCHANGED <<currentVisualization, created, requested, generated>>
    /\ UNCHANGED <<chatVars, streamVars, renderVars, clockVars, bodyVars, parseVars, inputVars,
                   noticeVars,
                   localStorage>>

\* the timer set with a notice fires: setShowNotification(false)
NotificationTimeout ==
    /\ showNotification
    /\ showNotification' = FALSE
    /\ UNCHANGED <<chatVars, streamVars, panelVars, renderVars, clockVars, bodyVars, parseVars,
                   inputVars, generated,
                   notificationDescription, localStorage>>

NextPanel ==
    \/ \E chartUrl \in ChartUrls : HandleOpenChart(chartUrl)
    \/ PanelTimer
    \/ HandleClose
    \/ NotificationTimeout
    \/ HandleNewConversation
    \/ \E c \in ConvIds : HandleConversationSwitch(c)
    \/ \E c \in ConvIds : HandleDeleteConversation(c)
    \/ HandleDeleteAll

\* the panel, its embed cache and the thread list, with no request made
SpecPanel == Init /\ [][NextPanel]_vars

NextValidate ==
    \/ \E chartUrl \in UrlTexts : HandleOpenChart(chartUrl)
    \/ PanelTimer
    \/ HandleClose
    \/ NotificationTimeout

\* the panel alone, with every text a chart_url may be
SpecValidate == Init /\ [][NextValidate]_vars

\* -------------------------------------------------------------- threads
\* a text of n characters
Chars(n) == [i \in 1..n |-> "c"]

\* the texts a user may submit to a thread: a short one, one of exactly
\* TitleLimit characters, one of a character more, and one that begins like
\* the title of an unnamed thread
ThreadInputs ==
    { <<"question">>, Chars(TitleLimit), Chars(TitleLimit + 1),
      NewConversationTitle \o <<SP, "x">> }

\* the page is loaded again: KickSightApp and useChat are constructed anew with
\* what the store holds, the effect on [activeConversation] hands the first
\* thread to the hook, and the streams of the page that was left are gone
Reload ==
    /\ conversations' = loadConversations(localStorage, sessionSeq + 1)
    /\ persist
    /\ activeConversation' = IF conversations' = <<>> THEN 1 ELSE conversations'[1].id
    /\ messages' = IF conversations' = <<>> THEN <<>> ELSE conversations'[1].messages
    /\ sessionId' = IF conversations' = <<>> THEN sessionId ELSE conversations'[1].sessionId
    /\ selectedAgent' = FALSE
    /\ isProcessing' = FALSE
    /\ currentReasoningStep' = <<>>
    /\ transport' = [r \in Reqs |-> IF transport[r] = "open" THEN "unloaded" ELSE transport[r]]
    /\ showVisualization' = FALSE
    /\ currentVisualization' = NoUrl
    /\ quickSightIframeCache' = <<>>
    /\ created' = [u \in UrlTexts |-> 0]
    /\ timer' = NoUrl
    /\ requested' = <<>>
    /\ showNotification' = FALSE
    /\ notificationDescription' = NoDescription
    /\ inputMessage' = <<>>
    /\ UNCHANGED <<hookRev, promise, delivered, submittedAt, sessionSeq, generated,
                   renderVars, clockVars, bodyVars, parseVars>>

NextThreads ==
    \/ AgentsConfigLoaded
    \/ \E text \in ThreadInputs : nextRequest = 1 /\ HandleSendMessage(text)
    \/ HandleNewConversation
    \/ \E c \in ConvIds : HandleConversationSwitch(c)
    \/ \E c \in ConvIds : HandleDeleteConversation(c)
    \/ HandleDeleteAll
    \/ \E r \in Reqs : Len(delivered[r]) < MaxThreadEvents /\ OnEvent(r, FinalOk)
    \/ \E r \in Reqs : StreamClose(r)
    \/ NotificationTimeout
    \/ Reload

\* the thread list and its store, under every action of the user on threads
\* and a page load, with one request that is answered at once or not at all
SpecThreads == Init /\ [][NextThreads]_vars

\* the user names threads by what is sent to them: as many requests as Reqs
\* holds, none of them answered, in threads that are opened, switched to and
\* deleted; a submission without an agent and the deletion of the only thread
\* change no thread and are followed in SpecThreads
NextTitles ==
    \/ AgentsConfigLoaded
    \/ \E text \in ThreadInputs : selectedAgent /\ HandleSendMessage(text)
    \/ HandleNewConversation
    \/ \E c \in ConvIds : HandleConversationSwitch(c)
    \/ \E c \in ConvIds : Len(conversations) > 1 /\ HandleDeleteConversation(c)
    \/ \E r \in Reqs : StreamClose(r)

SpecTitles == Init /\ [][NextTitles]_vars

\* ------------------------------------------------------------ rendering
\* the keys a result object may have; `note` is a key the front end does not know
ResultKeys ==
    {"type", "url", "message", "query_id", "query", "explanation", "sample_analysis",
     "csv_url", "chart_url", "visualization_analysis_result", "note"}

\* result objects: any keys; `type` names the embed or something else,
\* `query_id` may be the empty string
ResultObjects ==
    { Obj([k \in S |-> IF k = "type" THEN t ELSE IF k = "query_id" THEN q ELSE "v"]) :
          S \in SUBSET ResultKeys, t \in {QuickSightIFrame, "table"}, q \in {"Q1", ""} }

\* the contents a bot message may have
Contents ==
    ResultObjects
        \cup {Null, Undefined, Str(<<"R">>), Str(<<>>),
              Arr([k \in {} |-> "v"]), Arr([k \in {"0"} |-> "v"])}

\* a bot message with this content is in the list
InitRender ==
    /\ InitChat /\ InitPanel /\ InitNotice /\ InitNothingParsed /\ InitNoBody
    /\ payload \in Contents
    /\ rendering = NotRendered

\* KickSightApp.renderMessage, the branch of a 'bot' message
RenderMessage ==
    /\ rendering = NotRendered
    /\ rendering' =
           [tags |-> renderBotContent(payload),
            blocks |-> IF typeofObject(payload) /\ isSupervisorAgentResponse(payload)
                       THEN renderSupervisorResponse(payload)
                       ELSE {}]
    /\ UNCHANGED <<payload, generated>>
    /\ UNCHANGED <<chatVars, streamVars, panelVars, noticeVars, localStorage, parseVars,
                   inputVars, clockVars, bodyVars>>

NextRender == RenderMessage

\* the rendering of every content
SpecRender == InitRender /\ [][NextRender]_vars

\* ------------------------------------------------------ utils/json.ts
\* the texts handed to parseJsonContent: JSON, JSON that needs the lenient
\* parser or the repair, a text no parser takes, prose, prose with a brace in
\* it, the empty text; each with and without white space around it
JsonBodies ==
    { QueryJson, TrailingCommaJson, UnclosedJson, ListJson, BrokenJson,
      <<"R">>, <<"see", SP, "{", "}">>, <<>> }

Padding == { <<>>, <<SP>>, <<NL, SP>> }

RawTexts == { Str(before \o body \o after) :
                  before \in Padding, body \in JsonBodies, after \in Padding }

\* a call parseJsonContent(raw) returns
ParseJsonContent ==
    /\ parsed = NotParsed
    /\ parsed' = [value |-> parseJsonContent(raw), calls |-> parserCalls(raw)]
    /\ UNCHANGED <<chatVars, streamVars, panelVars, renderVars, clockVars, bodyVars, noticeVars,
                   inputVars, generated,
                   localStorage, raw>>

NextParse == ParseJsonContent

\* parseJsonContent is handed a text or a value that is no text
InitParse ==
    /\ InitChat /\ InitPanel /\ InitNotice /\ InitNothingRendered /\ InitNoBody
    /\ raw \in RawTexts \cup Contents
    /\ parsed = NotParsed

\* parseJsonContent on every input
SpecParse == InitParse /\ [][NextParse]_vars

\* ------------------------------------------------------ the send gate
\* a stored list whose thread was written without a session token
LegacyItem == stringify(<<Conversation(1, NewConversationTitle, NoSession)>>)

\* the page loads with nothing stored or with the list above: the effect on
\* [activeConversation] hands the thread's token, or none, to the hook
InitGate ==
    /\ InitPanel /\ InitNothingRendered /\ InitNotice /\ InitNothingParsed /\ InitNoBody
    /\ \E saved \in {Null, LegacyItem} : conversations = loadConversations(saved, 1)
    /\ localStorage = stringify(conversations)
    /\ activeConversation = conversations[1].id
    /\ inputMessage = <<>>
    /\ now = 0
    /\ selectedAgent = FALSE
    /\ messages = conversations[1].messages
    /\ sessionId = conversations[1].sessionId
    /\ isProcessing = FALSE
    /\ currentReasoningStep = <<>>
    /\ hookRev \in {Guarded, Unguarded}
    /\ transport = [r \in Reqs |-> "idle"]
    /\ promise = [r \in Reqs |-> Pending]
    /\ delivered = [r \in Reqs |-> <<>>]
    /\ submittedAt = [r \in Reqs |-> 0]
    /\ sessionSeq = 1
    /\ generated = [r \in Reqs |-> <<>>]

\* submissions with and without an agent and a session token, among the
\* actions that raise a notice (a chart url that is not valid, a chart that is
\* open already, the deletion of the only thread) and the ends of a stream
NextGate ==
    \/ AgentsConfigLoaded
    \/ \E text \in Inputs : HandleSendMessage(text)
    \/ HandleNewConversation
    \/ \E c \in ConvIds : HandleDeleteConversation(c)
    \/ \E chartUrl \in {UrlA, AppHref} : HandleOpenChart(chartUrl)
    \/ NotificationTimeout
    \/ \E r \in Reqs : StreamClose(r)
    \/ \E r \in Reqs : StreamThrow(r, NetworkError)

SpecGate == InitGate /\ [][NextGate]_vars

\* --------------------------------------------------------- message ids
\* a millisecond passes
Tick ==
    /\ now < MaxClock
    /\ now' = now + 1
    /\ UNCHANGED <<chatVars, streamVars, panelVars, renderVars, parseVars, inputVars,
                   noticeVars, bodyVars, generated, localStorage>>

\* no message of the user in the hook's list was submitted in this millisecond
laterThanLastSubmission ==
    \A i \in 1..Len(messages) : messages[i].type = "user" => messages[i].id < ms(now)

\* requests of one thread and their answers, as time goes by; the user submits
\* at most once in a millisecond
NextIds ==
    \/ AgentsConfigLoaded
    \/ \E text \in Inputs :
          /\ selectedAgent /\ ~isProcessing /\ laterThanLastSubmission
          /\ HandleSendMessage(text)
    \/ \E r \in Reqs : Len(delivered[r]) < MaxThreadEvents /\ OnEvent(r, FinalOk)
    \/ \E r \in Reqs : StreamClose(r)
    \/ Tick

SpecIds == Init /\ [][NextIds]_vars

\* ---------------------------------------------------------- the transport
\* 'data: ', the start of a line that carries an event
DataPrefix == <<"data", ":", SP>>

HeartbeatJson == <<"{", "heartbeat", "}">>
FinalJson == <<"{", "final_response", "}">>
CutJson == <<"{", "heartbeat">>

\* JSON.parse on the texts the server writes after 'data: '
JSONparseEvent(str) ==
    CASE str = HeartbeatJson -> EvMsg("heartbeat", <<"alive">>)
      [] str = FinalJson -> FinalOk
      [] OTHER -> SyntaxError

\* the lines a response body is made of
WireLines ==
    { DataPrefix \o HeartbeatJson, DataPrefix \o FinalJson, DataPrefix \o CutJson,
      <<":", "ping">>, <<>> }

\* the sequences of one to MaxLines lines
LineSeqs == UNION { [1..n -> WireLines] : n \in 1..MaxLines }

\* the bodies: the lines, a line break between them, with or without a line
\* break after the last one
Bodies == { join(ls) \o end : ls \in LineSeqs, end \in {<<>>, <<NL>>} }

RECURSIVE eventsOf(_)
\* the loop over the lines: a line that starts with 'data: ' and parses is
\* handed to onEvent, one that does not parse is logged and skipped
eventsOf(lines) ==
    IF lines = <<>> THEN <<>>
    ELSE LET line == Head(lines)
             data == JSONparseEvent(SubSeq(line, Len(DataPrefix) + 1, Len(line)))
         IN  (IF startsWith(line, DataPrefix) /\ data # SyntaxError
              THEN <<data>> ELSE <<>>) \o eventsOf(Tail(lines))

\* reader.read() returns the next n bytes of the body
ReaderRead(n) ==
    /\ ~wire.done
    /\ wire.read + n <= Len(wire.bytes)
    /\ LET value == SubSeq(wire.bytes, wire.read + 1, wire.read + n)
           lines == split(buffer \o value)
       IN  /\ buffer' = Or(lines[Len(lines)], <<>>)
           /\ handed' = handed \o eventsOf(SubSeq(lines, 1, Len(lines) - 1))
    /\ wire' = [wire EXCEPT !.read = @ + n]
    /\ UNCHANGED <<chatVars, streamVars, panelVars, renderVars, parseVars, inputVars,
                   noticeVars, clockVars, generated, localStorage>>

\* reader.read() reports the end of the body: the loop is left
ReaderDone ==
    /\ ~wire.done
    /\ wire.read = Len(wire.bytes)
    /\ wire' = [wire EXCEPT !.done = TRUE]
    /\ UNCHANGED <<chatVars, streamVars, panelVars, renderVars, parseVars, inputVars,
                   noticeVars, clockVars, generated, localStorage, buffer, handed>>

InitTransport ==
    /\ InitChat /\ InitPanel /\ InitNothingRendered /\ InitNotice /\ InitNothingParsed
    /\ wire \in { [bytes |-> b, read |-> 0, done |-> FALSE] : b \in Bodies }
    /\ buffer = <<>>
    /\ handed = <<>>

NextTransport ==
    \/ \E n \in 1..Len(wire.bytes) : ReaderRead(n)
    \/ ReaderDone

SpecTransport == InitTransport /\ [][NextTransport]_vars

\* ------------------------------------------------------ the processing flag
NextProcessing ==
    \/ AgentsConfigLoaded
    \/ \E text \in Inputs : selectedAgent /\ HandleSendMessage(text)
    \/ \E r \in Reqs, ev \in {EvMsg("heartbeat", <<"alive">>), FinalOk} :
          Len(delivered[r]) < MaxEvents /\ OnEvent(r, ev)
    \/ \E r \in Reqs : StreamClose(r)
    \/ \E r \in Reqs : StreamThrow(r, NetworkError)

\* reader.read() on an open body settles: the body ends or the read rejects,
\* and the promise callbacks (.catch, .finally) then run
TransportEnds == \A r \in Reqs : WF_vars(StreamClose(r) \/ StreamThrow(r, NetworkError))

\* requests of one thread in both revisions of the hook, every transport
\* coming to an end
SpecProcessing == Init /\ [][NextProcessing]_vars /\ TransportEnds

\* ------------------------------------------------- vocabulary of the claims
\* every message list of the application: the hook's and each thread's
MessageLists == {messages} \cup {conversations[i].messages : i \in 1..Len(conversations)}

count(list, P(_)) == Cardinality({i \in 1..Len(list) : P(list[i])})

InFlight(r) == transport[r] = "open"
Last(q) == q[Len(q)]
sawFinal(r) == \E i \in 1..Len(delivered[r]) : isFinal(delivered[r][i])
firstFinal(r) ==
    IF sawFinal(r)
    THEN delivered[r][CHOOSE i \in 1..Len(delivered[r]) :
                          /\ isFinal(delivered[r][i])
                          /\ \A j \in 1..(i - 1) : ~isFinal(delivered[r][j])]
    ELSE "none"

placeholderOf(r, list) == \E i \in 1..Len(list) : isReasoning(list[i]) /\ list[i].req = r
isErrorMessage(m) == m = errorMessage(m.req)

\* C1: for every event sequence that ends in a final_response with success=true
\* the promise is resolved, one final 'bot' message has been appended for the
\* request and never a second one, and the placeholder is gone from the list the
\* events act on.
C1_OneSuccessOneFinalMessage ==
    \A r \in Reqs :
        (delivered[r] # <<>> /\ Last(delivered[r]) = "final_response:true") =>
            /\ promise[r].state = "resolved"
            /\ \A list \in MessageLists :
                   count(list, LAMBDA m : m.type = "bot" /\ m.req = r) <= 1
            /\ ~placeholderOf(r, messages)

\* C2: once the transport has returned normally without delivering a
\* final_response, the promise of the request is settled as rejected.
C2_CloseWithoutFinalRejects ==
    \A r \in Reqs :
        (transport[r] = "closed" /\ ~sawFinal(r)) => promise[r].state = "rejected"

\* C3: a quiescent state (no request in flight) holds no 'bot-reasoning'
\* message, in the hook's list or in any thread.
C3_NoPlaceholderWhenQuiescent ==
    (\A r \in Reqs : ~InFlight(r)) =>
        \A list \in MessageLists : count(list, isReasoning) = 0

\* C4: once a final_response has been processed for a request, every later
\* event of the same stream leaves the message list, the progress text and the
\* request's outcome unchanged.
C4_NothingAfterFinal ==
    [][\A r \in Reqs :
          (sawFinal(r) /\ delivered'[r] # delivered[r]) =>
              /\ messages' = messages
              /\ currentReasoningStep' = currentReasoningStep
              /\ promise'[r] = promise[r]]_vars

\* C5: every message list holds at most one 'bot-reasoning' message.
C5_AtMostOnePlaceholder ==
    \A list \in MessageLists : count(list, isReasoning) <= 1

\* C6: while a streamed request is in flight, no step opens a second stream or
\* appends a user or placeholder message for a new request.
C6_NoSubmissionWhileInFlight ==
    [][(\E r \in Reqs : InFlight(r)) =>
          /\ \A r \in Reqs : transport[r] = "idle" => transport'[r] = "idle"
          /\ \A r \in Reqs : transport[r] = "idle" =>
                 \A i \in 1..Len(messages') : messages'[i].req # r]_vars

\* C7: a thread started by handleNewConversation (its id is above 1, the id of
\* the initial thread and of the thread delete-all makes) after a request was
\* submitted never holds a message of that request, neither its placeholder
\* nor its final message.
C7_NoLeakIntoNewThread ==
    \A i \in 1..Len(conversations) : \A k \in 1..Len(conversations[i].messages) :
        LET m == conversations[i].messages[k]
        IN  conversations[i].id > 1 => conversations[i].sessionId <= submittedAt[m.req]

\* C8: a request whose final_response has success=false is rejected with the
\* analysis-failed error and stays so, whatever follows; a request whose
\* transport throws before any final_response is rejected with another error.
C8_UpstreamFailureIsDistinct ==
    \A r \in Reqs :
        /\ firstFinal(r) = "final_response:false" =>
               promise[r] = [state |-> "rejected", value |-> AnalysisFailed]
        /\ (transport[r] = "thrown" /\ ~sawFinal(r)) =>
               /\ promise[r].state = "rejected"
               /\ promise[r].value # AnalysisFailed

\* a failed final_response was followed by a throw of the same transport, and
\* another request was rejected by a throw alone
C8_Witness ==
    \E r, q \in Reqs :
        /\ firstFinal(r) = "final_response:false" /\ transport[r] = "thrown"
        /\ ~sawFinal(q) /\ transport[q] = "thrown"

\* C9: when a request has resolved as Failure its placeholder is in no message
\* list, and a list that still holds a message of the request holds the error
\* message that replaced the placeholder.
C9_FailureReplacesPlaceholder ==
    \A r \in Reqs :
        promise[r].state = "rejected" =>
            \A list \in MessageLists :
                /\ ~placeholderOf(r, list)
                /\ (\E i \in 1..Len(list) : list[i].req = r) =>
                       (\E i \in 1..Len(list) : list[i].req = r /\ isErrorMessage(list[i]))

\* the progress lines of a text, as LoadingIndicator shows them
progressLines(text) == filterTrimmed(split(text))

\* C10: the progress text of a placeholder has at most 5 progress lines.
C10_AtMostFiveLines ==
    \A list \in MessageLists : \A i \in 1..Len(list) :
        isReasoning(list[i]) => Len(progressLines(list[i].content.text)) <= RecentSteps

\* ----------------------------------------------------------- one stream
placeholderText(r, list) ==
    list[CHOOSE i \in 1..Len(list) : isReasoning(list[i]) /\ list[i].req = r].content.text

RECURSIVE linesOf(_)
\* the progress lines of a sequence of steps, in order
linesOf(steps) ==
    IF steps = <<>> THEN <<>>
    ELSE progressLines(Head(steps)) \o linesOf(Tail(steps))

endsWith(text, suffix) ==
    /\ Len(suffix) <= Len(text)
    /\ SubSeq(text, Len(text) - Len(suffix) + 1, Len(text)) = suffix

\* C11: after any prefix of the events of a stream, the placeholder shows the
\* last min(5, n) of the n progress steps generated for the request so far (one
\* per event that generates one), whole and in the order of arrival, none
\* reordered, merged, cut or duplicated.
C11_LastFiveInArrivalOrder ==
    \A r \in Reqs :
        placeholderOf(r, messages) =>
            progressLines(placeholderText(r, messages))
                = linesOf(sliceLast(generated[r], RecentSteps))

C13_ResolvesWithClassifiedPayload ==
    \A r \in Reqs :
        promise[r].state = "resolved" =>
            LET v == promise[r].value
            IN  /\ parseJsonContent(v.response) = v.response
                /\ (v.responseType = "text") <=> (renderBotContent(v.response) = {"text"})

\* ------------------------------------------------------------ rendering
guardsOf(content) ==
    (IF isQuickSightIFrameResponse(content) THEN {"embed"} ELSE {})
        \cup (IF isError(content) THEN {"error"} ELSE {})
        \cup (IF isSupervisorAgentResponse(content) THEN {"supervisor"} ELSE {})

OnlyMessage == Obj([message |-> "v"])
EmbedPointer == Obj([type |-> QuickSightIFrame, url |-> "v"])

\* C14: at most one of isQuickSightIFrameResponse, isError and
\* isSupervisorAgentResponse holds of an object content, and the message is
\* rendered at most one way; an object whose only field is `message` is an
\* error and not a composite result, an object with the embed type and a url
\* is an embed pointer and not a composite result.
C14_MutuallyExclusive ==
    /\ typeofObject(payload) => Cardinality(guardsOf(payload)) <= 1
    /\ guardsOf(OnlyMessage) = {"error"}
    /\ (payload.kind = "object" /\ in("type", payload) /\ in("url", payload)
           /\ payload.fields["type"] = QuickSightIFrame) => guardsOf(payload) = {"embed"}
    /\ rendering # NotRendered => Cardinality(rendering.tags) <= 1

\* the single-field error has been rendered, as an error
C14_Witness ==
    /\ payload = OnlyMessage
    /\ rendering # NotRendered
    /\ rendering.tags = {"error"}

\* C15: every content is rendered exactly one way, and a content that none of
\* the guards recognizes (the empty object, an object of unknown fields, an
\* array, null) is rendered as text.
C15_TotalWithTextFallback ==
    rendering # NotRendered =>
        /\ Cardinality(rendering.tags) = 1
        /\ (typeofObject(payload) /\ guardsOf(payload) = {}) => rendering.tags = {"text"}

CompositeKeys ==
    {"query_id", "query", "explanation", "sample_analysis", "csv_url", "chart_url",
     "visualization_analysis_result"}

\* C16: an object that is neither an embed pointer nor a single-field error and
\* has at least one of the seven fields of a composite result is rendered as
\* the composite result.
C16_AnyCompositeFieldIsComposite ==
    ( /\ rendering # NotRendered
      /\ payload.kind = "object"
      /\ ~isQuickSightIFrameResponse(payload)
      /\ ~isError(payload)
      /\ \E k \in CompositeKeys : in(k, payload) ) =>
        rendering.tags = {"supervisor"}

\* ------------------------------------------------------------ the panel
visibleEntries ==
    {u \in DOMAIN quickSightIframeCache : quickSightIframeCache[u].display = "block"}

C18_AtMostOneVisible == Cardinality(visibleEntries) <= 1

\* C19: after handleClose every entry of the cache has display 'none'.
C19_HideHidesEveryEntry ==
    [][HandleClose =>
          \A u \in DOMAIN quickSightIframeCache' :
              quickSightIframeCache'[u].display = "none"]_vars

\* C20: no step removes a url from the cache or puts another element in the
\* place of the one stored for a url.
C20_NeverEvictedNeverReplaced ==
    [][\A u \in DOMAIN quickSightIframeCache :
          /\ u \in DOMAIN quickSightIframeCache'
          /\ quickSightIframeCache'[u].serial = quickSightIframeCache[u].serial]_vars

\* two urls are cached, the panel is closed, and the thread list has been
\* replaced or extended since
C20_Witness ==
    /\ DOMAIN quickSightIframeCache = {UrlA, UrlB}
    /\ ~showVisualization
    /\ sessionSeq = MaxSessions

\* C21: handleOpenChart with a url that isValidUrl turns down (the chart button
\* hands over no empty url) shows the notice of an invalid chart url and
\* changes nothing else: the visualization, the panel's visibility and timer,
\* the cache with the display of every entry, the threads and the requests.
C21_InvalidUrlOnlyNotifies ==
    [][\A url \in ChartUrls :
          (url # EmptyUrl /\ ~isValidUrl(url) /\ HandleOpenChart(url)) =>
              /\ showNotification'
              /\ notificationDescription' = InvalidChartUrl
              /\ UNCHANGED <<currentVisualization, showVisualization,
                             quickSightIframeCache, created, timer>>
              /\ UNCHANGED <<chatVars, streamVars>>]_vars

\* a chart is on show and the notice of an invalid url is on screen
C21_Witness ==
    /\ showNotification
    /\ notificationDescription = InvalidChartUrl
    /\ showVisualization
    /\ currentVisualization = UrlA
    /\ visibleEntries = {UrlA}

\* C22: handleOpenChart with the url of the visualization the panel is showing
\* shows the notice that the chart is already open and nothing more: no
\* element is created, no entry is added to the cache or changes its display
\* or container, the timer of the panel is not set again, and the
\* visualization and the panel's visibility stay.
C22_AlreadyOpenOnlyNotifies ==
    [][\A url \in ChartUrls :
          (showVisualization /\ currentVisualization = url /\ HandleOpenChart(url)) =>
              /\ showNotification'
              /\ notificationDescription' = AlreadyOpen
              /\ UNCHANGED <<currentVisualization, showVisualization,
                             quickSightIframeCache, created, timer>>]_vars

\* the url on show, displayed, was handed to handleOpenChart a second time
C22_Witness ==
    /\ showNotification
    /\ notificationDescription = AlreadyOpen
    /\ requested = <<UrlA, UrlA>>
    /\ showVisualization
    /\ created[UrlA] = 1
    /\ visibleEntries = {UrlA}

\* what the url parser makes of a text
absolute(url) == newURL(url) # TypeError
scheme(url) == newURL(url).protocol
sameOriginAndPath(url, href) ==
    /\ newURL(url).origin = newURL(href).origin
    /\ newURL(url).pathname = newURL(href).pathname

\* C23: isValidUrl gives a boolean for every text (a text the parser throws on
\* gives FALSE): FALSE for a text that is no absolute url, FALSE for a scheme
\* other than http and https, FALSE for a url with the origin and path of the
\* application, TRUE for every other http or https url; so handleOpenChart
\* takes up exactly such urls.
C23_ValidateIsTotalAndExact ==
    /\ \A url \in UrlTexts :
          /\ isValidUrl(url) \in BOOLEAN
          /\ ~absolute(url) => ~isValidUrl(url)
          /\ (absolute(url) /\ scheme(url) \notin {"http:", "https:"}) => ~isValidUrl(url)
          /\ (absolute(url) /\ sameOriginAndPath(url, windowLocationHref)) =>
                 ~isValidUrl(url)
          /\ ( /\ absolute(url)
               /\ scheme(url) \in {"http:", "https:"}
               /\ ~sameOriginAndPath(url, windowLocationHref) ) => isValidUrl(url)
    /\ \A url \in {currentVisualization} \cup {requested[i] : i \in 1..Len(requested)} :
          url # NoUrl =>
              /\ absolute(url)
              /\ scheme(url) \in {"http:", "https:"}
              /\ ~sameOriginAndPath(url, windowLocationHref)

\* handleOpenChart has taken up an http url and a page of the application
\* other than the one shown, and has turned a url down
C23_Witness ==
    /\ requested = <<UrlHttp, AppOtherPath>>
    /\ notificationDescription = InvalidChartUrl

\* ------------------------------------------------------------- threads
hasUserMessage(msgs) == \E i \in 1..Len(msgs) : msgs[i].type = "user"

firstUserText(msgs) ==
    msgs[CHOOSE i \in 1..Len(msgs) :
             msgs[i].type = "user" /\ \A j \in 1..(i - 1) : msgs[j].type # "user"].content.text

\* C24: handleDeleteConversation on the only thread of the list deletes
\* nothing: the thread list, the active thread and the message list are as
\* before, and the notice that the last thread cannot be deleted is shown.
C24_OnlyThreadIsNotDeleted ==
    [][\A c \in ConvIds :
          (Len(conversations) = 1 /\ HandleDeleteConversation(c)) =>
              /\ conversations' = conversations
              /\ activeConversation' = activeConversation
              /\ messages' = messages
              /\ showNotification'
              /\ notificationDescription' = LastConversation]_vars

\* the deletion of the only thread, one with messages, has been turned down
C24_Witness ==
    /\ Len(conversations) = 1
    /\ hasUserMessage(conversations[1].messages)
    /\ messages = conversations[1].messages
    /\ showNotification
    /\ notificationDescription = LastConversation

\* C25: the thread list is never empty and activeConversation is the id of
\* exactly one thread of the list, whatever the user does: new conversation,
\* switch, delete, delete all, page load.
C25_OneActiveThread ==
    /\ Len(conversations) >= 1
    /\ Cardinality({i \in 1..Len(conversations) :
                       conversations[i].id = activeConversation}) = 1

\* the first thread was deleted, the second is the only and the active one,
\* and the page has been loaded again while a request was in flight
C25_Witness ==
    /\ Len(conversations) = 1
    /\ conversations[1].id = 2
    /\ activeConversation = 2
    /\ \E r \in Reqs : transport[r] = "unloaded"

\* C26: no thread of the stored item 'kicksight_conversations' holds a
\* 'bot-reasoning' message, so no thread read from the store on a page load
\* holds one.
C26_PlaceholderNeverPersisted ==
    \A i \in 1..Len(localStorage.item) :
        \A j \in 1..Len(localStorage.item[i].messages) :
            ~isReasoning(localStorage.item[i].messages[j])

\* the title the claim gives a thread whose first user message is text
titleFor(text) ==
    IF Len(text) <= TitleLimit THEN text ELSE SubSeq(text, 1, TitleLimit) \o Ellipsis

\* C29: a thread with a user message has the title made of its first user
\* message (the message itself up to 30 characters, else its first 30
\* characters and '...'), and a thread that has a user message keeps its title
\* in every step that keeps the thread.
C29_TitleFromFirstUserMessage ==
    [][ /\ \A j \in 1..Len(conversations') :
              hasUserMessage(conversations'[j].messages) =>
                  conversations'[j].title = titleFor(firstUserText(conversations'[j].messages))
        /\ \A i \in 1..Len(conversations), j \in 1..Len(conversations') :
              ( /\ conversations[i].id = conversations'[j].id
                /\ conversations[i].sessionId = conversations'[j].sessionId
                /\ hasUserMessage(conversations[i].messages) ) =>
                  conversations'[j].title = conversations[i].title ]_vars

\* a thread whose first message had 31 characters has the title of 30
\* characters and '...', and a later user message of 30 characters
C29_Witness ==
    \E i \in 1..Len(conversations) :
        /\ conversations[i].title = Chars(TitleLimit) \o Ellipsis
        /\ \E j \in 2..Len(conversations[i].messages) :
               /\ conversations[i].messages[j].type = "user"
               /\ conversations[i].messages[j].content.text = Chars(TitleLimit)

\* ------------------------------------------------------ utils/json.ts
\* the repair gave a text and the strict parser took it
repaired(str) ==
    /\ jsonrepair(str) # SyntaxError
    /\ JSONparse(jsonrepair(str).text) # SyntaxError

\* C27: for a text, parseJsonContent returns a value (what a parser throws
\* never leaves it) that is not null; for a text that looks like JSON it calls
\* the strict parser, then the lenient parser, then the repair with the strict
\* parser, stops at the first that succeeds and returns its value, and returns
\* the text it was handed when all have failed.
C27_FirstParserThatSucceeds ==
    (parsed # NotParsed /\ raw.kind = "string") =>
        LET str == trim(raw.text)
        IN  /\ parsed.value # SyntaxError
            /\ parsed.value # Null
            /\ looksLikeJson(str) =>
                   IF JSONparse(str) # SyntaxError
                   THEN /\ parsed.value = JSONparse(str)
                        /\ parsed.calls = <<"JSON.parse">>
                   ELSE IF JSON5parse(str) # SyntaxError
                   THEN /\ parsed.value = JSON5parse(str)
                        /\ parsed.calls = <<"JSON.parse", "JSON5.parse">>
                   ELSE IF repaired(str)
                   THEN /\ parsed.value = JSONparse(jsonrepair(str).text)
                        /\ parsed.calls =
                               <<"JSON.parse", "JSON5.parse", "jsonrepair", "JSON.parse">>
                   ELSE /\ parsed.value = raw
                        /\ parsed.calls = <<"JSON.parse", "JSON5.parse", "jsonrepair">>

\* a text with white space around it that no parser and no repair takes has
\* come back as it was handed in
C27_Witness ==
    /\ raw = Str(<<SP>> \o BrokenJson \o <<NL, SP>>)
    /\ parsed.value = raw
    /\ parsed.calls = <<"JSON.parse", "JSON5.parse", "jsonrepair">>

\* C28: parseJsonContent returns a value that is no text as it is, and a text
\* whose trimmed form does not begin with '{' or '[' as it was handed in, white
\* space included; in both cases it calls no parser.
C28_NotJsonComesBackUnchanged ==
    ( /\ parsed # NotParsed
      /\ raw.kind = "string" => ~looksLikeJson(trim(raw.text)) ) =>
        /\ parsed.value = raw
        /\ parsed.calls = <<>>

\* prose with a brace in it and white space around it has come back unchanged
C28_Witness ==
    /\ raw = Str(<<NL, SP, "see", SP, "{", "}", SP>>)
    /\ parsed.value = raw
    /\ parsed.calls = <<>>

\* ------------------------------------------------- reasoning events
\* the text before the first line break of a text
headline(text) ==
    IF \A i \in 1..Len(text) : text[i] # NL THEN text
    ELSE SubSeq(text, 1, (CHOOSE i \in 1..Len(text) :
                             text[i] = NL /\ \A j \in 1..(i - 1) : text[j] # NL) - 1)

\* C30: a 'reasoning' event with content adds one progress line to the
\* placeholder of its request, the thought icon and the text of the content
\* before its first line break, and settles nothing; a 'reasoning' event with
\* no content (absent or empty) leaves the messages, the current step, the
\* promise, the transport and the processing flag as they were.
C30_ReasoningAppendsFirstLine ==
    [][\A ev \in ReasoningEvents :
          (ev.type = "reasoning" /\ OnEvent(1, ev)) =>
              /\ promise' = promise
              /\ transport' = transport
              /\ isProcessing' = isProcessing
              /\ IF ev.content = <<>>
                 THEN UNCHANGED <<messages, conversations, currentReasoningStep>>
                 ELSE placeholderOf(1, messages) =>
                          /\ placeholderOf(1, messages')
                          /\ progressLines(placeholderText(1, messages')) =
                                 sliceLast(
                                     Append(progressLines(placeholderText(1, messages)),
                                            <<"ICON_THOUGHT", SP>> \o headline(ev.content)),
                                     RecentSteps)]_vars

\* of two 'reasoning' events, one had three lines and one had no content: the
\* placeholder shows the first line of the one and nothing of the other
C30_Witness ==
    /\ delivered[1] = <<"reasoning", "reasoning">>
    /\ placeholderOf(1, messages)
    /\ placeholderText(1, messages) = <<"ICON_THOUGHT", SP, "l1">>

\* -------------------------------------------------- progress events
\* the placeholder of request r has one progress line more (the oldest line
\* gone when there were RecentSteps of them)
appendsOneLine(r) ==
    /\ placeholderOf(r, messages')
    /\ progressLines(placeholderText(r, messages')) # <<>>
    /\ progressLines(placeholderText(r, messages')) =
           sliceLast(Append(progressLines(placeholderText(r, messages)),
                            Last(progressLines(placeholderText(r, messages')))),
                     RecentSteps)

\* the newest progress line of the placeholder of request r
newestLine(r) == Last(progressLines(placeholderText(r, messages')))

\* the text occurs in the line
names(line, text) ==
    \E i \in 1..(Len(line) - Len(text) + 1) : SubSeq(line, i, i + Len(text) - 1) = text

\* C31: a 'knowledge_base' event adds one progress line to the placeholder of
\* its request, and the line reports the event's references_count (0 when the
\* event has none), whether or not the event carries a message.
C31_KnowledgeBaseReportsCount ==
    [][\A ev \in ProgressEvents :
          (ev.type = "knowledge_base" /\ OnEvent(1, ev) /\ placeholderOf(1, messages)) =>
              /\ appendsOneLine(1)
              /\ names(newestLine(1), <<ToString(ev.references_count)>>)]_vars

\* C32: every 'query_execution' event adds exactly one progress line that
\* names the query identifier, and every 'visualization_created' event adds
\* exactly one progress line that names the chart category.
C32_QueryAndChartAlwaysReported ==
    [][\A ev \in ProgressEvents :
          ( /\ ev.type \in {"query_execution", "visualization_created"}
            /\ OnEvent(1, ev)
            /\ placeholderOf(1, messages) ) =>
              /\ appendsOneLine(1)
              /\ names(newestLine(1),
                       IF ev.type = "query_execution" THEN ev.query_id ELSE ev.chart_type)]_vars

C34_GatedSubmissionOnlyNotifies ==
    [][\A text \in Inputs :
          (HandleSendMessage(text) /\ ~isProcessing) =>
              IF ~selectedAgent \/ sessionId = NoSession
              THEN /\ UNCHANGED <<transport, messages, conversations, isProcessing>>
                   /\ inputMessage' = text
                   /\ showNotification'
                   /\ notificationDescription' \in {SelectAgent, StartNewConversation}
              ELSE /\ transport'[nextRequest] = "open"
                   /\ messages' = messages \o <<userMessage(text, nextRequest),
                                                 reasoningMessage(nextRequest)>>]_vars

\* a submission was turned away for want of a session token, its notice is
\* still on screen, and a later submission, from a new thread, is in flight
C34_Witness ==
    /\ showNotification
    /\ notificationDescription = StartNewConversation
    /\ transport[1] = "open"
    /\ inputMessage = <<"question">>
    /\ \E i \in 1..Len(messages) : messages[i] = userMessage(<<"question">>, 1)

\* --------------------------------------------------------- message ids
\* C35: no two messages of one thread carry the same id.
C35_IdsUniqueInThread ==
    \A k \in 1..Len(conversations) :
        \A i, j \in 1..Len(conversations[k].messages) :
            i # j => conversations[k].messages[i].id # conversations[k].messages[j].id

\* -------------------------------------------------- streams and threads
\* the thread holds a message of request r
holdsRequest(conv, r) == \E k \in 1..Len(conv.messages) : conv.messages[k].req = r

\* C36: an event of a stream changes the message list of no thread other than
\* the one its request was submitted from: a thread that was there when the
\* request was submitted and holds no message of the request has, after the
\* event, the messages it had.
C36_EventsStayInTheirThread ==
    [][\A r \in Reqs :
          delivered'[r] # delivered[r] =>
              \A i \in 1..Len(conversations), j \in 1..Len(conversations') :
                  ( /\ conversations[i].id = conversations'[j].id
                    /\ conversations[i].sessionId <= submittedAt[r]
                    /\ ~holdsRequest(conversations[i], r) ) =>
                      conversations'[j].messages = conversations[i].messages]_vars

\* -------------------------------------------------------- the transport
\* C37: when the body has been read to its end, the events handed to onEvent
\* are those of the well-formed 'data: ' lines of the whole body, each once
\* and in order, however the body was cut into chunks and whether or not its
\* last line ends with a line break; a malformed line is skipped.
C37_DeliversEveryDataLine ==
    wire.done => handed = eventsOf(split(wire.bytes))

\* -------------------------------------------------- the processing flag
\* C38: isProcessing is true as long as the transport of an accepted
\* submission is open, and every accepted submission is followed, once its
\* transport has completed or thrown, by isProcessing = false.
C38_ProcessingUntilTransportEnds ==
    /\ [](\A r \in Reqs : transport[r] = "open" => isProcessing)
    /\ \A r \in Reqs : (transport[r] = "open") ~> ~isProcessing

====
